---- MODULE Spec2Model ----
(***************************************************************************)
(* A model of NcmUploader (src/main.py): the resume-point calculation over *)
(* failed_ids.txt, the semaphore-bounded fan-out of per-song upload        *)
(* workflows on one asyncio event loop, and the appends to the failure     *)
(* ledger.                                                                  *)
(*                                                                          *)
(* Song ids are integers.  A ledger line is the decimal text of an id       *)
(* followed by a newline (f"{song_id}\n"); reading it back is               *)
(* int(line.strip()), which yields the same integer, so a line is modelled  *)
(* by the integer it holds.  The remote service is the environment: every   *)
(* response it can give is an input of the action that receives it.         *)
(***************************************************************************)
EXTENDS Integers, Sequences, FiniteSets, TLC

VARIABLES
    cookie_file,      \* whether cookies.txt exists
    cloud_info,       \* what get_cloud_info answered, "unchecked" before
    ledger_reads,     \* calls of _get_last_failed_id in this run
    catalog,          \* ids of the descriptors of the catalog file, in order
    concurrency,      \* the concurrency argument of upload
    ledger,           \* failed_ids.txt: [exists, lines]
    ledger_at_start,  \* failed_ids.txt as it was when this run began (history)
    pc,               \* position of the main coroutine
    song_info_list,   \* the list upload hands to _async_upload_songs
    tasks,            \* one record per coroutine created by _async_upload_songs
    sem,              \* free permits of the asyncio.Semaphore
    blocked,          \* task holding the event loop inside requests.get, or 0
    requests,         \* remote calls issued in this run: <<endpoint, song id>>
    last,             \* the remote response delivered by the latest step
    run,              \* number of the current run of the program
    earlier           \* per catalog position: outcome in the earlier runs

vars == <<cookie_file, cloud_info, ledger_reads, catalog, concurrency, ledger, ledger_at_start, pc, song_info_list,
          tasks, sem, blocked, requests, last, run, earlier>>

(***************************************************************************)
(* Bounds of the model.                                                     *)
(***************************************************************************)
MaxLen == 3
MaxK == 2
MaxFailed == 2
MaxLedger == 2
MaxRuns == 2
MaxRerunLen == 2
MaxLiveLen == 2

\* The code the import endpoint reports for a file that already exists.
FileExistsCode == -100

SeqsUpTo(S, n) == UNION {[1..m -> S] : m \in 0..n}

Ids == 1..MaxLen
\* One id more than any catalog holds, so that a ledger can name a stranger.
LedgerIds == 1..(MaxLen + 1)

ErrorCodes == {FileExistsCode, -200}

(***************************************************************************)
(* The failure ledger.                                                      *)
(***************************************************************************)
NoFile == [exists |-> FALSE, lines |-> <<>>]
File(lines) == [exists |-> TRUE, lines |-> lines]

\* Mutant of _save_failed_id: the file is opened with "w" and loses its lines.
SaveFailedIdTruncates(file, song_id) == File(<<song_id>>)

\* Mutant of _save_failed_id: the id is written in front of the old lines.
SaveFailedIdInFront(file, song_id) == File(<<song_id>> \o file.lines)

\* open("failed_ids.txt", "a") creates the file when it is missing.
_save_failed_id(file, song_id) == File(Append(file.lines, song_id))

\* The result of a call: a value, or the exception it raised.
Return(v) == [raised |-> "", value |-> v]
Raise(e) == [raised |-> e, value |-> <<>>]

\* Mutant of _get_last_failed_id: the first line is taken for the marker.
FirstFailedId(file) ==
    IF ~file.exists THEN Return(<<>>)
    ELSE IF file.lines = <<>> THEN Raise("IndexError")
    ELSE Return(<<file.lines[1]>>)

\* None is <<>>; an id is <<id>>.  ids[-1] of an empty list is an IndexError.
_get_last_failed_id(file) ==
    IF ~file.exists THEN Return(<<>>)
    ELSE IF file.lines = <<>> THEN Raise("IndexError")
    ELSE Return(<<file.lines[Len(file.lines)]>>)

\* Mutant of ResumeScan: the list is cut at the failed song, which stays in.
RECURSIVE ResumeScanKeepsFailed(_, _, _)
ResumeScanKeepsFailed(list, last_failed_id, index) ==
    IF index > Len(list) THEN list
    ELSE IF list[index] = last_failed_id
         THEN SubSeq(list, index, Len(list))
         ELSE ResumeScanKeepsFailed(list, last_failed_id, index + 1)

\* Mutant of ResumeScan: a marker that matches nothing leaves nothing to do.
RECURSIVE ResumeScanDropsAll(_, _, _)
ResumeScanDropsAll(list, last_failed_id, index) ==
    IF index > Len(list) THEN <<>>
    ELSE IF list[index] = last_failed_id
         THEN SubSeq(list, index + 1, Len(list))
         ELSE ResumeScanDropsAll(list, last_failed_id, index + 1)

\* The for loop of get_resume_song_info_list from position index (1-based).
RECURSIVE ResumeScan(_, _, _)
ResumeScan(list, last_failed_id, index) ==
    IF index > Len(list) THEN list
    ELSE IF list[index] = last_failed_id
         THEN SubSeq(list, index + 1, Len(list))
         ELSE ResumeScan(list, last_failed_id, index + 1)

get_resume_song_info_list(list, file) ==
    LET last_failed_id == _get_last_failed_id(file)
    IN  IF last_failed_id.raised # "" THEN last_failed_id
        ELSE IF last_failed_id.value = <<>> THEN Return(list)
        ELSE Return(ResumeScan(list, last_failed_id.value[1], 1))

(***************************************************************************)
(* Remote responses.                                                        *)
(***************************************************************************)
Response(kind, success, failed) ==
    [kind |-> kind, success |-> success, failed |-> failed]
NoResponse == [task |-> 0, stage |-> "none", resp |-> Response("none", FALSE, <<>>)]

\* /user/cloud/detail: code 200 with data, code 200 without data, another
\* code, a body that is not JSON, or a failure that raises.
ExistsResponses ==
    {Response(x, FALSE, <<>>) :
        x \in {"present", "absent", "bad_code", "malformed", "raise"}}

\* /song/detail: code 200 with songs, code 200 with no songs, another code,
\* a body that is not JSON, or a failure that raises.
DetailResponses ==
    {Response(x, FALSE, <<>>) :
        x \in {"songs", "empty", "bad_code", "malformed", "raise"}}

\* /cloud/import: a JSON body whose data.successSongs is not empty, a JSON
\* body without success songs and with data.failed (a list of error codes),
\* or a failure that raises.  data.failed is read only to be printed when
\* there are success songs, so it is left empty there.
ImportResponses ==
    {Response("json", TRUE, <<>>)}
        \cup {Response("json", FALSE, f) : f \in SeqsUpTo(ErrorCodes, MaxFailed)}
        \cup {Response("raise", FALSE, <<>>)}

\* _has_uploaded: True only for code 200 with non-empty data.
_has_uploaded(r) == r.kind = "present"

\* get_song_details: the songs for code 200, [] in every other case.
get_song_details(r) == r.kind = "songs"

\* Mutant of AllFileExists: any(...) in the place of all(...).
AnyFileExists(failed) ==
    \E x \in 1..Len(failed) : failed[x] = FileExistsCode

\* all(f["code"] == -100 for f in failed)
RECURSIVE AllFileExists(_)
AllFileExists(failed) ==
    IF failed = <<>> THEN TRUE
    ELSE Head(failed) = FileExistsCode /\ AllFileExists(Tail(failed))

(***************************************************************************)
(* Tasks.                                                                   *)
(***************************************************************************)
NewTask(id) ==
    [id |-> id, st |-> "Pending", reason |-> "",
     exists |-> 0, details |-> 0, imports |-> 0, appends |-> 0]

Terminal == {"Skipped", "Imported", "Failed"}
InFlightStates == {"CheckingExistence", "FetchingDetails", "Uploading"}

TaskIds == 1..Len(tasks)
InFlight == {j \in TaskIds : tasks[j].st \in InFlightStates}

\* Catalog position of task j: the list handed over is a suffix of the catalog.
Position(j) == Len(catalog) - Len(tasks) + j

\* Mutant of CreateTasks: a coroutine for every song of the catalog.
CreateTasksForCatalog(list) == [j \in 1..Len(catalog) |-> NewTask(catalog[j])]

\* _async_upload_songs: one coroutine per element of the list, in order.
CreateTasks(list) == [j \in 1..Len(list) |-> NewTask(list[j])]

\* What a piece of a workflow leaves behind: the task, whether
\* _save_failed_id was called, and whether an exception escaped.
Outcome(t, save, raised) == [task |-> t, save |-> save, raised |-> raised]

\* Mutant of AfterHasUploaded: the answer of _has_uploaded is not looked at.
AfterHasUploadedIgnoresAnswer(t, r) ==
    IF r.kind = "raise" THEN Outcome(t, FALSE, TRUE)
    ELSE Outcome([t EXCEPT !.st = "FetchingDetails",
                           !.details = @ + 1], FALSE, FALSE)

\* _try_to_upload_one_song once _has_uploaded has answered: return when the
\* song is in the cloud, otherwise call get_song_details.
AfterHasUploaded(t, r) ==
    IF r.kind = "raise" THEN Outcome(t, FALSE, TRUE)
    ELSE IF _has_uploaded(r)
         THEN Outcome([t EXCEPT !.st = "Skipped"], FALSE, FALSE)
         ELSE Outcome([t EXCEPT !.st = "FetchingDetails",
                                !.details = @ + 1], FALSE, FALSE)

\* Mutant of AfterSongDetails: a lookup without details saves the id.
AfterSongDetailsSavesFailure(t, r) ==
    IF r.kind = "raise" THEN Outcome(t, FALSE, TRUE)
    ELSE IF get_song_details(r)
         THEN Outcome([t EXCEPT !.st = "Uploading",
                                !.imports = @ + 1], FALSE, FALSE)
         ELSE Outcome([t EXCEPT !.st = "Failed",
                                !.reason = "no-details"], TRUE, FALSE)

\* Mutant of AfterSongDetails: the import request is sent without details.
AfterSongDetailsUploadsAnyway(t, r) ==
    IF r.kind = "raise" THEN Outcome(t, FALSE, TRUE)
    ELSE Outcome([t EXCEPT !.st = "Uploading",
                           !.imports = @ + 1], FALSE, FALSE)

\* _try_to_upload_one_song once get_song_details has answered: with details
\* call _send_upload_request, without them fall off the end of the function.
AfterSongDetails(t, r) ==
    IF r.kind = "raise" THEN Outcome(t, FALSE, TRUE)
    ELSE IF get_song_details(r)
         THEN Outcome([t EXCEPT !.st = "Uploading",
                                !.imports = @ + 1], FALSE, FALSE)
         ELSE Outcome([t EXCEPT !.st = "Failed",
                                !.reason = "no-details"], FALSE, FALSE)

\* Mutant of _send_upload_request: the test of the error codes and the save
\* are not under the else of "if success_songs".
SendUploadRequestSavesOnSuccess(t, r) ==
    IF r.kind = "raise" THEN Outcome(t, FALSE, TRUE)
    ELSE IF r.success
         THEN Outcome([t EXCEPT !.st = "Imported"],
                      AllFileExists(r.failed), FALSE)
         ELSE Outcome([t EXCEPT !.st = "Failed",
                                !.reason = "remote-rejected"],
                      AllFileExists(r.failed), FALSE)

\* _send_upload_request once the import endpoint has answered.
_send_upload_request(t, r) ==
    IF r.kind = "raise" THEN Outcome(t, FALSE, TRUE)
    ELSE IF r.success
         THEN Outcome([t EXCEPT !.st = "Imported"], FALSE, FALSE)
         ELSE Outcome([t EXCEPT !.st = "Failed",
                                !.reason = "remote-rejected"],
                      AllFileExists(r.failed), FALSE)

\* Mutant of _upload_one_song: no try/except around the workflow.
UploadOneSongWithoutExcept(o) == o

\* _upload_one_song: an exception of the workflow is caught and the id saved.
_upload_one_song(o) ==
    IF o.raised
    THEN Outcome([o.task EXCEPT !.st = "Failed", !.reason = "exception"],
                 TRUE, FALSE)
    ELSE o

\* The endpoint a task in state st is calling.
Endpoint(st) ==
    CASE st = "CheckingExistence" -> "exists"
      [] st = "FetchingDetails" -> "detail"
      [] st = "Uploading" -> "import"

\* Mutant of Release: a workflow that failed keeps its permit.
ReleaseUnlessFailed(t) == IF t.st \in {"Skipped", "Imported"} THEN 1 ELSE 0

\* "async with sem": the permit is given back when _upload_one_song has
\* returned, whatever the outcome of the workflow.
Release(t) == IF t.st \in Terminal THEN 1 ELSE 0

\* The effect of one piece of task j on the shared state: the ledger append,
\* the permit given back, the event loop held while requests.get is running,
\* the call now in flight.  An exception that escaped _upload_one_song would
\* leave asyncio.gather and end the program.
Settle(j, stage, r, outcome) ==
    LET o == _upload_one_song(outcome)
        t == [o.task EXCEPT !.appends = IF o.save THEN @ + 1 ELSE @]
    IN  /\ last' = [task |-> j, stage |-> stage, resp |-> r]
        /\ IF o.raised
           THEN /\ pc' = "crashed"
                /\ blocked' = 0
                /\ UNCHANGED <<tasks, ledger, sem, requests>>
           ELSE /\ tasks' = [tasks EXCEPT ![j] = t]
                /\ ledger' = IF o.save THEN _save_failed_id(ledger, t.id)
                             ELSE ledger
                /\ sem' = sem + Release(t)
                /\ blocked' = IF t.st = "FetchingDetails" THEN j ELSE 0
                /\ requests' = IF t.st \in Terminal THEN requests
                               ELSE requests \cup {<<Endpoint(t.st), t.id>>}
                /\ pc' = pc
        /\ UNCHANGED <<cookie_file, cloud_info, ledger_reads, catalog,
                       concurrency, ledger_at_start, song_info_list, run,
                       earlier>>

(***************************************************************************)
(* Actions of a run.                                                        *)
(***************************************************************************)
\* upload: compute the list to resume from and hand it to
\* _async_upload_songs, which creates the semaphore and the coroutines and
\* awaits them.  An exception of get_resume_song_info_list ends the program.
upload ==
    /\ pc = "start"
    /\ LET r == get_resume_song_info_list(catalog, ledger)
       IN  IF r.raised # ""
           THEN /\ pc' = "crashed"
                /\ UNCHANGED <<song_info_list, tasks, sem>>
           ELSE /\ pc' = "running"
                /\ song_info_list' = r.value
                /\ tasks' = CreateTasks(r.value)
                /\ sem' = concurrency
    /\ ledger_reads' = ledger_reads + 1
    /\ UNCHANGED <<cookie_file, cloud_info, catalog, concurrency, ledger,
                   ledger_at_start, blocked, requests, last, run, earlier>>

\* Mutant of CanAcquire: the coroutines are not held back by the semaphore.
CanAcquireNoLimit(j) == \A i \in 1..(j - 1) : tasks[i].st # "Pending"

\* "async with sem" lets a coroutine in when a permit is free; the waiters
\* are served in the order in which the coroutines were created.
CanAcquire(j) ==
    /\ sem > 0
    /\ \A i \in 1..(j - 1) : tasks[i].st # "Pending"

\* _upload_with_semaphore: take a permit, enter _upload_one_song and send
\* the existence check of _has_uploaded.  The coroutine runs without a
\* suspension from the permit to the request, so this is one step; it may
\* come before or after the answers other coroutines are waiting for.
Acquire(j) ==
    /\ pc = "running"
    /\ blocked = 0
    /\ tasks[j].st = "Pending"
    /\ CanAcquire(j)
    /\ sem' = sem - 1
    /\ tasks' = [tasks EXCEPT ![j].st = "CheckingExistence",
                              ![j].exists = @ + 1]
    /\ requests' = requests \cup {<<"exists", tasks[j].id>>}
    /\ last' = NoResponse
    /\ UNCHANGED <<cookie_file, cloud_info, ledger_reads, catalog,
                   concurrency, ledger, ledger_at_start, pc, song_info_list,
                   blocked, run, earlier>>

\* The existence check of task j answers.  When the song is not reported
\* present the task goes on into requests.get, which holds the event loop.
HasUploadedReturns(j, r) ==
    /\ pc = "running"
    /\ blocked = 0
    /\ tasks[j].st = "CheckingExistence"
    /\ Settle(j, "existence", r, AfterHasUploaded(tasks[j], r))

\* requests.get of get_song_details returns in the task that holds the loop.
SongDetailsReturns(j, r) ==
    /\ pc = "running"
    /\ blocked = j
    /\ tasks[j].st = "FetchingDetails"
    /\ Settle(j, "details", r, AfterSongDetails(tasks[j], r))

\* The import request of task j answers.
ImportReturns(j, r) ==
    /\ pc = "running"
    /\ blocked = 0
    /\ tasks[j].st = "Uploading"
    /\ Settle(j, "import", r, _send_upload_request(tasks[j], r))

\* asyncio.gather returns when every coroutine has ended; upload returns.
GatherReturns ==
    /\ pc = "running"
    /\ \A j \in TaskIds : tasks[j].st \in Terminal
    /\ pc' = "done"
    /\ UNCHANGED <<cookie_file, cloud_info, ledger_reads, catalog,
                   concurrency, ledger, ledger_at_start, song_info_list,
                   tasks, sem, blocked, requests, last, run, earlier>>

(***************************************************************************)
(* One run of the program.                                                  *)
(***************************************************************************)
RunCatalogs == {[p \in 1..n |-> p] : n \in 0..MaxLen}

\* The catalogs of the runs that are repeated.
RerunCatalogs == {[p \in 1..n |-> p] : n \in 0..MaxRerunLen}

\* No file, an empty file, one line, or a stranger's line before the last.
RunLedgers ==
    {NoFile, File(<<>>)}
        \cup {File(<<x>>) : x \in LedgerIds}
        \cup {File(<<MaxLen + 1, x>>) : x \in Ids}

InitWith(catalogs, ledgers) ==
    /\ cookie_file = TRUE
    /\ cloud_info = "info"
    /\ ledger_reads = 0
    /\ catalog \in catalogs
    /\ concurrency \in 1..MaxK
    /\ ledger \in ledgers
    /\ ledger_at_start = ledger
    /\ pc = "start"
    /\ song_info_list = <<>>
    /\ tasks = <<>>
    /\ sem = 0
    /\ blocked = 0
    /\ requests = {}
    /\ last = NoResponse
    /\ run = 1
    /\ earlier = [p \in 1..Len(catalog) |-> "none"]

Init == InitWith(RunCatalogs, RunLedgers)

Next ==
    \/ upload
    \/ \E j \in TaskIds : Acquire(j)
    \/ \E j \in TaskIds : \E r \in ExistsResponses : HasUploadedReturns(j, r)
    \/ \E j \in TaskIds : \E r \in DetailResponses : SongDetailsReturns(j, r)
    \/ \E j \in TaskIds : \E r \in ImportResponses : ImportReturns(j, r)
    \/ GatherReturns

Spec == Init /\ [][Next]_vars

(***************************************************************************)
(* The program from its entry point: the credential is checked first.       *)
(***************************************************************************)
\* get_cloud_info answers with cloud details, with nothing, or it raises.
CloudInfoResponses == {"info", "empty", "raise"}

\* Mutant of _show_cloud_music_detail: an empty answer is let through.
ShowCloudMusicDetailAcceptsEmpty(r) ==
    IF r = "raise" THEN Raise("Exception") ELSE Return(<<>>)

\* _show_cloud_music_detail: ValueError when get_cloud_info gives nothing.
_show_cloud_music_detail(r) ==
    IF r = "raise" THEN Raise("Exception")
    ELSE IF r = "empty" THEN Raise("ValueError")
    ELSE Return(<<>>)

\* __main__: without cookies.txt print and exit(0); otherwise read the
\* cookie and construct NcmUploader, whose __init__ checks it and raises on
\* an invalid one; then asyncio.run(upload).
main(r) ==
    /\ pc = "main"
    /\ IF ~cookie_file
       THEN /\ pc' = "exited"
            /\ UNCHANGED cloud_info
       ELSE /\ cloud_info' = r
            /\ pc' = IF _show_cloud_music_detail(r).raised # ""
                     THEN "aborted" ELSE "start"
    /\ UNCHANGED <<cookie_file, ledger_reads, catalog, concurrency, ledger,
                   ledger_at_start, song_info_list, tasks, sem, blocked,
                   requests, last, run, earlier>>

InitMain ==
    /\ cookie_file \in BOOLEAN
    /\ cloud_info = "unchecked"
    /\ ledger_reads = 0
    /\ catalog \in RerunCatalogs
    /\ concurrency \in 1..MaxK
    /\ ledger \in RunLedgers
    /\ ledger_at_start = ledger
    /\ pc = "main"
    /\ song_info_list = <<>>
    /\ tasks = <<>>
    /\ sem = 0
    /\ blocked = 0
    /\ requests = {}
    /\ last = NoResponse
    /\ run = 1
    /\ earlier = [p \in 1..Len(catalog) |-> "none"]

NextMain ==
    \/ \E r \in CloudInfoResponses : main(r)
    \/ Next

MainSpec == InitMain /\ [][NextMain]_vars

\* One run on an event loop that keeps taking the steps it can take: a
\* coroutine that can go on is resumed, and every remote call in flight
\* comes back with an answer or with a failure.
LiveCatalogs == {[p \in 1..n |-> p] : n \in 0..MaxLiveLen}

InitLive == InitWith(LiveCatalogs, RunLedgers)

LiveSpec == InitLive /\ [][Next]_vars /\ WF_vars(Next)

(***************************************************************************)
(* The program run again on the same catalog, the ledger file kept.         *)
(***************************************************************************)
\* How the run that ends left the song at catalog position p: without a
\* workflow, skipped, ended otherwise, or with its workflow unfinished.
LeftAt(p) ==
    IF \E j \in TaskIds : Position(j) = p
    THEN LET st == tasks[CHOOSE j \in TaskIds : Position(j) = p].st
         IN  IF st = "Skipped" THEN "Skipped"
             ELSE IF st \in Terminal THEN "Ended"
             ELSE IF earlier[p] \in {"Skipped", "Ended"} THEN earlier[p]
             ELSE "Unfinished"
    ELSE earlier[p]

\* The process is stopped while upload is running: the workflows that are
\* pending or in flight are lost, failed_ids.txt stays as it is.  Only runs
\* that can be followed by another one are stopped.
Interrupt ==
    /\ pc = "running"
    /\ run < MaxRuns
    /\ pc' = "stopped"
    /\ UNCHANGED <<cookie_file, cloud_info, ledger_reads, catalog,
                   concurrency, ledger, ledger_at_start, song_info_list,
                   tasks, sem, blocked, requests, last, run, earlier>>

\* __main__ is started again after upload has returned or the process was
\* stopped: a new NcmUploader and a new event loop; only failed_ids.txt
\* carries over.
Restart ==
    /\ pc \in {"done", "stopped"}
    /\ run < MaxRuns
    /\ run' = run + 1
    /\ earlier' = [p \in 1..Len(catalog) |-> LeftAt(p)]
    /\ ledger_at_start' = ledger
    /\ pc' = "start"
    /\ song_info_list' = <<>>
    /\ tasks' = <<>>
    /\ sem' = 0
    /\ blocked' = 0
    /\ requests' = {}
    /\ last' = NoResponse
    /\ ledger_reads' = 0
    /\ UNCHANGED <<cookie_file, cloud_info, catalog, concurrency, ledger>>

InitRuns == InitWith(RerunCatalogs, {NoFile})

\* The answers drawn in the runs that are repeated: one for each path of the
\* workflow (an answer with another code or with an unparsable body takes
\* the path of the empty answer; of a failure list only "all -100" counts).
RerunExistsResponses ==
    {r \in ExistsResponses : r.kind \in {"present", "absent", "raise"}}
RerunDetailResponses ==
    {r \in DetailResponses : r.kind \in {"songs", "empty", "raise"}}
RerunImportResponses == {r \in ImportResponses : Len(r.failed) <= 1}

NextRuns ==
    \/ upload
    \/ \E j \in TaskIds : Acquire(j)
    \/ \E j \in TaskIds :
         \E r \in RerunExistsResponses : HasUploadedReturns(j, r)
    \/ \E j \in TaskIds :
         \E r \in RerunDetailResponses : SongDetailsReturns(j, r)
    \/ \E j \in TaskIds :
         \E r \in RerunImportResponses : ImportReturns(j, r)
    \/ GatherReturns
    \/ Interrupt
    \/ Restart

RunsSpec == InitRuns /\ [][NextRuns]_vars

(***************************************************************************)
(* get_resume_song_info_list on its own, over every catalog (ids may        *)
(* repeat) and every ledger file of the bounds.                             *)
(***************************************************************************)
AllCatalogs == SeqsUpTo(Ids, MaxLen)
AllLedgers == {NoFile} \cup {File(l) : l \in SeqsUpTo(LedgerIds, MaxLedger)}

InitResume == InitWith(AllCatalogs, AllLedgers)

Resume ==
    /\ pc = "start"
    /\ LET r == get_resume_song_info_list(catalog, ledger)
       IN  IF r.raised # ""
           THEN /\ pc' = "crashed"
                /\ UNCHANGED song_info_list
           ELSE /\ pc' = "resumed"
                /\ song_info_list' = r.value
    /\ ledger_reads' = ledger_reads + 1
    /\ UNCHANGED <<cookie_file, cloud_info, catalog, concurrency, ledger,
                   ledger_at_start, tasks, sem, blocked, requests, last, run,
                   earlier>>

NextResume == Resume

ResumeSpec == InitResume /\ [][NextResume]_vars

(***************************************************************************)
(* Vocabulary of the properties.                                            *)
(***************************************************************************)
\* The resume marker of this run: the last line of the ledger it started with.
HasMarker == ledger_at_start.exists /\ ledger_at_start.lines # <<>>
Marker == ledger_at_start.lines[Len(ledger_at_start.lines)]
Matches == {p \in 1..Len(catalog) : catalog[p] = Marker}
FirstMatch == CHOOSE p \in Matches : \A q \in Matches : p <= q
Resumed == pc \in {"resumed", "running", "done"}
UniqueIds == \A p, q \in 1..Len(catalog) : catalog[p] = catalog[q] => p = q
\* The ids this run has appended to the ledger, in order.
Appended == SubSeq(ledger.lines, Len(ledger_at_start.lines) + 1, Len(ledger.lines))
Range(s) == {s[x] : x \in 1..Len(s)}

\* C1: at most `concurrency` workflows are in flight (inside
\* _upload_one_song, not yet at a terminal outcome) in every reachable state.
C1_AtMostKInFlight == Cardinality(InFlight) <= concurrency

\* C1 witness: the limit is reached while another workflow waits for a permit.
C1_Witness ==
    /\ concurrency = 2
    /\ Cardinality(InFlight) = concurrency
    /\ \E j \in TaskIds : tasks[j].st = "Pending"
    /\ \E j \in TaskIds : tasks[j].st = "Uploading"

\* C2: when the last ledger entry equals the id of some descriptor, the
\* result is the part of the list after the first such descriptor (position
\* i), in the original order, and the descriptor at position i is left out.
C2_ResumeAfterFirstMatch ==
    (Resumed /\ HasMarker /\ Matches # {}) =>
        /\ Len(song_info_list) = Len(catalog) - FirstMatch
        /\ \A q \in 1..Len(song_info_list) :
               song_info_list[q] = catalog[FirstMatch + q]
        /\ UniqueIds => Marker \notin Range(song_info_list)

\* C2 witness: two descriptors carry the marker, the first one is not at the
\* head, the ledger's first line differs from its last, something is left.
C2_Witness ==
    /\ pc = "resumed"
    /\ HasMarker
    /\ Cardinality(Matches) = 2
    /\ FirstMatch = 2
    /\ Len(ledger_at_start.lines) = 2
    /\ ledger_at_start.lines[1] # Marker
    /\ Len(song_info_list) = 1

\* C3: with no ledger file, or with a last entry that is the id of no
\* descriptor, the result is the full list, same elements in the same order.
C3_FullListWithoutMatch ==
    (Resumed /\ (~ledger_at_start.exists \/ (HasMarker /\ Matches = {}))) =>
        song_info_list = catalog

\* C3 witness: a ledger whose last entry is a stranger though its first
\* entry is the id of a descriptor, and a catalog that is not empty.
C3_Witness ==
    /\ pc = "resumed"
    /\ HasMarker
    /\ Matches = {}
    /\ Len(ledger_at_start.lines) = 2
    /\ ledger_at_start.lines[1] \in Range(catalog)
    /\ Len(catalog) = MaxLen
    /\ song_info_list = catalog

\* C4: with a ledger file that exists and holds no entry the resume marker
\* is absent and the result is the full list; no error is raised.
C4_EmptyLedgerIsNoLedger ==
    (pc # "start" /\ ledger_at_start.exists /\ ledger_at_start.lines = <<>>) =>
        (pc # "crashed" /\ song_info_list = catalog)

Endpoints == {"exists", "detail", "import"}
Calls(id) == {e \in Endpoints : <<e, id>> \in requests}
AllEnded == \A j \in TaskIds : tasks[j].st \in Terminal
\* The latest step delivered, to task j, a /cloud/import answer that lists
\* no successfully imported song.
ImportRejected(j) ==
    /\ last.task = j
    /\ last.stage = "import"
    /\ last.resp.kind = "json"
    /\ ~last.resp.success

\* C5: a workflow whose import request is rejected (no success song in the
\* answer), whatever the error codes, ends Failed and has appended its id to
\* the ledger exactly once; and for catalog [1,2,3] without ledger, song 1 in
\* the cloud, song 2 imported and song 3 rejected with a code other than
\* "file exists", the ledger after the run is [3].
C5_RejectedImportIsRecorded ==
    /\ \A j \in TaskIds :
           ImportRejected(j) =>
               /\ tasks[j].st = "Failed"
               /\ tasks[j].appends = 1
               /\ Appended # <<>>
               /\ Appended[Len(Appended)] = tasks[j].id
    /\ ( /\ pc = "done"
         /\ catalog = <<1, 2, 3>>
         /\ ~ledger_at_start.exists
         /\ tasks[1].st = "Skipped"
         /\ tasks[2].st = "Imported"
         /\ ImportRejected(3)
         /\ last.resp.failed # <<>>
         /\ FileExistsCode \notin Range(last.resp.failed) )
       => (ledger.exists /\ ledger.lines = <<3>>)

\* C7: a workflow whose existence check reports the song present ends
\* Skipped with that one remote call and nothing else: no detail lookup, no
\* import call, no ledger append; and so it does when the program is run
\* again on the same song.
C7_PresentSongIsSkipped ==
    /\ \A j \in TaskIds :
           (last.task = j /\ last.stage = "existence"
                /\ last.resp.kind = "present") => tasks[j].st = "Skipped"
    /\ \A j \in TaskIds :
           tasks[j].st = "Skipped" =>
               /\ tasks[j].exists = 1
               /\ tasks[j].details = 0
               /\ tasks[j].imports = 0
               /\ tasks[j].appends = 0
               /\ Calls(tasks[j].id) = {"exists"}
               /\ tasks[j].id \notin Range(Appended)

\* C7 witness: in the second run a song that the first run skipped is
\* reported present again and is skipped again.
C7_Witness ==
    /\ run = 2
    /\ \E j \in TaskIds :
           /\ earlier[Position(j)] = "Skipped"
           /\ last.task = j
           /\ last.resp.kind = "present"
           /\ tasks[j].st = "Skipped"

\* C8: a workflow that ends Imported has made exactly three remote calls,
\* one existence check, one detail lookup and one import request, and no
\* ledger append.
C8_ImportedAfterThreeCalls ==
    \A j \in TaskIds :
        tasks[j].st = "Imported" =>
            /\ tasks[j].exists = 1
            /\ tasks[j].details = 1
            /\ tasks[j].imports = 1
            /\ tasks[j].appends = 0
            /\ Calls(tasks[j].id) = Endpoints
            /\ tasks[j].id \notin Range(Appended)

\* C8 witness: the run is over, one song was imported next to one that
\* failed and was appended.
C8_Witness ==
    /\ pc = "done"
    /\ \E j \in TaskIds : tasks[j].st = "Imported"
    /\ \E j \in TaskIds : tasks[j].appends = 1

\* C10: in a run whose marker matches the descriptor at position i, no
\* remote call is issued for a song at a position up to i, no workflow is
\* created for it and its id is not appended to the ledger in that run.
C10_NothingBeforeTheMarker ==
    (HasMarker /\ Matches # {}) =>
        \A p \in 1..FirstMatch :
            /\ Calls(catalog[p]) = {}
            /\ \A j \in TaskIds : Position(j) # p
            /\ catalog[p] \notin Range(Appended)

\* C10 witness: catalog [1,2,3], a ledger that ends in 2: the run is over,
\* song 3 was taken as far as the import call and was appended.
C10_Witness ==
    /\ pc = "done"
    /\ catalog = <<1, 2, 3>>
    /\ HasMarker
    /\ Marker = 2
    /\ Len(ledger_at_start.lines) = 2
    /\ Calls(3) = Endpoints
    /\ Appended = <<3>>

\* C6: an exception at the existence check, the detail lookup or the import
\* leaves its workflow Failed with its own id appended exactly once; the
\* step that raises changes no other workflow and does not end the program,
\* the permit comes back, and the run goes on until every workflow has ended.
C6_ExceptionStaysInItsWorkflow ==
    /\ [](\A j \in TaskIds :
            tasks[j].reason = "exception" =>
                /\ tasks[j].st = "Failed"
                /\ tasks[j].appends = 1
                /\ Cardinality({x \in 1..Len(Appended) :
                                    Appended[x] = tasks[j].id}) = 1)
    /\ [](last.resp.kind = "raise" =>
            /\ pc # "crashed"
            /\ tasks[last.task].reason = "exception")
    /\ [][(last'.resp.kind = "raise" /\ last' # last) =>
            /\ \A i \in TaskIds \ {last'.task} : tasks'[i] = tasks[i]
            /\ sem' = sem + 1
            /\ pc' = pc]_vars
    /\ ((\E j \in TaskIds : tasks[j].reason = "exception")
            ~> (pc = "done" /\ AllEnded))

\* C6 witness: with two permits the detail lookup of the first song has
\* just raised and its id is in the ledger while the second song is in
\* flight, waiting for the answer to its import request.
C6_Witness ==
    /\ concurrency = 2
    /\ Len(tasks) = 2
    /\ last.task = 1
    /\ last.stage = "details"
    /\ last.resp.kind = "raise"
    /\ tasks[1].reason = "exception"
    /\ Appended = <<1>>
    /\ tasks[2].st = "Uploading"

\* C9: every song of the list handed over has its one workflow, and a run
\* that has started its workflows goes on until all of them are at a
\* terminal outcome and asyncio.gather has returned, whatever the outcomes.
C9_RunCompletes ==
    /\ [](pc \in {"running", "done"} =>
            /\ Len(tasks) = Len(song_info_list)
            /\ \A j \in TaskIds : tasks[j].id = song_info_list[j])
    /\ [](pc = "done" => AllEnded)
    /\ ((pc = "running") ~> (pc = "done"))

\* C9 witness: a run of two songs under one permit is over; the first song
\* failed on an exception, the second was rejected without an append.
C9_Witness ==
    /\ pc = "done"
    /\ concurrency = 1
    /\ Len(tasks) = 2
    /\ tasks[1].reason = "exception"
    /\ tasks[2].reason = "remote-rejected"
    /\ tasks[2].appends = 0

RECURSIVE SumAppends(_)
SumAppends(j) == IF j = 0 THEN 0 ELSE tasks[j].appends + SumAppends(j - 1)
Occurrences(s, x) == Cardinality({i \in 1..Len(s) : s[i] = x})

\* C11: the appends of workflows that fail side by side do not mix: the
\* ledger grows by whole lines, one per append performed, each holding the id
\* of the workflow that appended it; no line is lost and none is merged.
C11_OneWholeLinePerAppend ==
    /\ Len(ledger.lines) = Len(ledger_at_start.lines) + SumAppends(Len(tasks))
    /\ SubSeq(ledger.lines, 1, Len(ledger_at_start.lines)) = ledger_at_start.lines
    /\ \A j \in TaskIds : Occurrences(Appended, tasks[j].id) = tasks[j].appends
    /\ \A x \in 1..Len(Appended) : \E j \in TaskIds : tasks[j].id = Appended[x]

\* C11 witness: under two permits the first two workflows were in flight
\* together and both failed with an append, the second before the first.
C11_Witness ==
    /\ concurrency = 2
    /\ Len(tasks) >= 2
    /\ tasks[1].appends = 1
    /\ tasks[2].appends = 1
    /\ Appended = <<tasks[2].id, tasks[1].id>>
    /\ ledger_at_start.lines # <<>>

\* C12: without cookies.txt, or with a cookie for which get_cloud_info gives
\* nothing, the program ends before upload: no workflow is created, no remote
\* call is issued for a song, the ledger is neither read nor written.
C12_NoRunWithoutCredential ==
    (~cookie_file \/ cloud_info = "empty") =>
        /\ pc \in {"main", "exited", "aborted"}
        /\ tasks = <<>>
        /\ song_info_list = <<>>
        /\ requests = {}
        /\ ledger_reads = 0
        /\ ledger = ledger_at_start

\* C12 witness: the cookie was rejected and the program has ended, with a
\* catalog of songs and a ledger whose marker names one of them.
C12_Witness ==
    /\ pc = "aborted"
    /\ cloud_info = "empty"
    /\ Len(catalog) = 2
    /\ HasMarker
    /\ Matches # {}

\* C13: after an existence answer with another code than 200, or with a body
\* that is not JSON, the workflow has failed: no detail lookup and no import
\* request is issued for the song.
C13_BadExistenceAnswerFails ==
    (last.stage = "existence" /\ last.resp.kind \in {"bad_code", "malformed"})
        => /\ tasks[last.task].st = "Failed"
           /\ tasks[last.task].details = 0
           /\ tasks[last.task].imports = 0
           /\ <<"detail", tasks[last.task].id>> \notin requests

\* The response task i is waiting for arrives and the task takes its step.
ResponseArrives(i) ==
    \/ \E r \in ExistsResponses : HasUploadedReturns(i, r)
    \/ \E r \in DetailResponses : SongDetailsReturns(i, r)
    \/ \E r \in ImportResponses : ImportReturns(i, r)

\* C14: every remote call suspends its workflow only: while a workflow waits
\* for an answer, each other workflow in flight can take its next step.
C14_WaitingLetsOthersStep ==
    pc = "running" =>
        \A j \in InFlight : \A i \in InFlight \ {j} : ENABLED ResponseArrives(i)

\* C15: when get_song_details gives nothing without raising (no songs, a
\* code other than 200, a body that is not JSON), the workflow ends as
\* Failed(no-details) with no import request and no line in the ledger.
C15_NoDetailsEndsQuietly ==
    /\ (last.stage = "details"
            /\ last.resp.kind \in {"empty", "bad_code", "malformed"})
        => /\ tasks[last.task].st = "Failed"
           /\ tasks[last.task].reason = "no-details"
    /\ \A j \in TaskIds :
        tasks[j].reason = "no-details"
            => /\ tasks[j].st = "Failed"
               /\ tasks[j].details = 1
               /\ tasks[j].imports = 0
               /\ tasks[j].appends = 0
               /\ "import" \notin Calls(tasks[j].id)
               /\ Occurrences(Appended, tasks[j].id) = 0

\* C15 witness: a run is over in which a lookup answered with a bad code,
\* another workflow was saved, and the one without details was not.
C15_Witness ==
    /\ pc = "done"
    /\ last.stage = "details"
    /\ last.resp.kind = "bad_code"
    /\ tasks[last.task].reason = "no-details"
    /\ Appended # <<>>

\* Every call and the append happen at most once in a workflow, and a later
\* call is never issued without the earlier one.
CallsAtMostOnce ==
    \A j \in TaskIds :
        /\ tasks[j].exists <= 1
        /\ tasks[j].details <= tasks[j].exists
        /\ tasks[j].imports <= tasks[j].details
        /\ tasks[j].appends <= 1

\* The step issues the detail lookup of task j.
IssuesDetails(j) == tasks'[j].details > tasks[j].details
\* The step issues the import request of task j.
IssuesImport(j) == tasks'[j].imports > tasks[j].imports
\* The step is the return of task j's call of that stage, without raising.
Returned(j, stage) ==
    /\ last'.task = j
    /\ last'.stage = stage
    /\ last'.resp.kind # "raise"

\* C16: in a workflow the three calls come in order and at most once each:
\* the detail lookup is issued only when _has_uploaded has returned "not
\* uploaded" (False), the import request only when get_song_details has
\* returned songs; and a workflow appends to the ledger at most once.
C16_CallsInOrderAtMostOnce ==
    /\ []CallsAtMostOnce
    /\ [][\A j \in TaskIds :
            /\ IssuesDetails(j) =>
                Returned(j, "existence") /\ ~_has_uploaded(last'.resp)
            /\ IssuesImport(j) =>
                Returned(j, "details") /\ get_song_details(last'.resp)]_vars

\* C16 witness: a workflow made its three calls, the import request raised,
\* and its id was appended once.
C16_Witness ==
    \E j \in TaskIds :
        /\ tasks[j].exists = 1
        /\ tasks[j].details = 1
        /\ tasks[j].imports = 1
        /\ tasks[j].appends = 1
        /\ tasks[j].reason = "exception"
        /\ Calls(tasks[j].id) = Endpoints

\* The lines read at the start of the run are still the first lines.
StartIsPrefix ==
    /\ Len(ledger.lines) >= Len(ledger_at_start.lines)
    /\ SubSeq(ledger.lines, 1, Len(ledger_at_start.lines))
           = ledger_at_start.lines

\* C17: a run reads the ledger exactly once, before any workflow exists and
\* before anything is appended; from then on the ledger changes only by one
\* line added at its end, so what was read stays a prefix of it.
C17_ReadOnceThenAppendOnly ==
    /\ [](/\ pc = "start" =>
                ledger_reads = 0 /\ tasks = <<>> /\ ledger = ledger_at_start
          /\ pc \in {"running", "done", "stopped", "crashed"} =>
                ledger_reads = 1
          /\ StartIsPrefix)
    /\ [][/\ ledger_reads' > ledger_reads =>
                /\ tasks = <<>>
                /\ requests = {}
                /\ ledger = ledger_at_start
                /\ ledger' = ledger
          /\ ledger' # ledger =>
                /\ ledger_reads = 1
                /\ ledger_reads' = 1
                /\ \E j \in TaskIds :
                      ledger' = File(Append(ledger.lines, tasks[j].id))]_vars

\* C17 witness: a second run has read the two lines that the first run left
\* and has appended one more.
C17_Witness ==
    /\ run = 2
    /\ pc = "running"
    /\ ledger_reads = 1
    /\ Len(ledger_at_start.lines) = 2
    /\ Len(Appended) = 1

\* The catalog positions that the list of this run leaves out.
Excluded == 1..(Len(catalog) - Len(song_info_list))

\* C18: with two or more workflows at a time, every song that a run started
\* after an interruption leaves out had reached a terminal outcome in an
\* earlier run.
C18_ResumeLosesNoWork ==
    (concurrency >= 2 /\ run > 1 /\ pc \in {"running", "done", "stopped"})
        => \A p \in Excluded : earlier[p] \in {"Skipped", "Ended"}

\* C19: when the import request has returned a JSON answer, the workflow
\* appends its id exactly when the answer lists no success song and every
\* entry of its failure list has code -100 (so also when the list is empty);
\* with any other code in the list nothing is appended.
C19_AppendIffOnlyFileExists ==
    (last.stage = "import" /\ last.resp.kind = "json") =>
        LET t == tasks[last.task]
            only_exists ==
                \A x \in 1..Len(last.resp.failed) :
                    last.resp.failed[x] = FileExistsCode
            appended ==
                /\ t.appends = 1
                /\ Appended # <<>>
                /\ Appended[Len(Appended)] = t.id
        IN  /\ appended <=> (~last.resp.success /\ only_exists)
            /\ ~appended => t.appends = 0 /\ Occurrences(Appended, t.id) = 0

\* C19 witness: a failure list that mixes -100 with another code was
\* answered after an earlier workflow had been appended, and the song of
\* the mixed list was not.
C19_Witness ==
    /\ last.stage = "import"
    /\ last.resp.kind = "json"
    /\ last.resp.failed = <<FileExistsCode, -200>>
    /\ tasks[last.task].st = "Failed"
    /\ tasks[last.task].appends = 0
    /\ Appended # <<>>

\* The catalog position that a run starting on this file resumes after: the
\* first position whose id is the last line, 0 when there is none.
MarkerPosition(file) ==
    IF file.lines = <<>> THEN 0
    ELSE LET m == {p \in 1..Len(catalog) :
                      catalog[p] = file.lines[Len(file.lines)]}
         IN  IF m = {} THEN 0 ELSE CHOOSE p \in m : \A q \in m : p <= q

\* C20: over an unchanged catalog with unique ids, a run appends only ids
\* of its own list; so over the runs, completed or stopped, the position of
\* the marker never goes back, a run that appends nothing leaves it where
\* it was, and no song at or before the marker gets a workflow or a remote
\* call again.
C20_MarkerNeverGoesBack ==
    /\ [](UniqueIds =>
            /\ Range(Appended) \subseteq Range(song_info_list)
            /\ \A j \in TaskIds : Position(j) > MarkerPosition(ledger_at_start)
            /\ \A p \in 1..MarkerPosition(ledger_at_start) :
                  Calls(catalog[p]) = {}
            /\ MarkerPosition(ledger) >= MarkerPosition(ledger_at_start)
            /\ Appended = <<>> =>
                  MarkerPosition(ledger) = MarkerPosition(ledger_at_start))
    /\ [][UniqueIds =>
            /\ MarkerPosition(ledger_at_start')
                  >= MarkerPosition(ledger_at_start)
            /\ (run' > run /\ Appended = <<>>) =>
                  MarkerPosition(ledger_at_start')
                      = MarkerPosition(ledger_at_start)]_vars

\* C20 witness: the first run appended song 1 and was stopped with song 2
\* pending; the second run resumed after song 1 and appended song 2.
C20_Witness ==
    /\ run = 2
    /\ Len(catalog) = 2
    /\ MarkerPosition(ledger_at_start) = 1
    /\ earlier[2] = "Unfinished"
    /\ Appended = <<catalog[2]>>
    /\ MarkerPosition(ledger) = 2

====
